---------------------------- MODULE Spec2Model ----------------------------
(***************************************************************************)
(* A model of the job-lifecycle and resource-orchestration layer of        *)
(* deepsea-ai: Config.get_resources and Config.get_tags (config.py), the   *)
(* upload-and-tag loop video_data / training_data (upload_tag.py), the     *)
(* queued dispatch batch_run (process.py) and the commands of __main__.py  *)
(* that call them.                                                         *)
(*                                                                         *)
(* Strings the code searches with `in` or splits are sequences of tokens   *)
(* (a path "/mnt/data" is <<"/", "mnt", "/", "data">>, an environment      *)
(* name "VIDEO_QUEUE_URL" is <<"VIDEO", "QUEUE", "URL">>), so that a       *)
(* substring test is a computation on the sequence.                        *)
(***************************************************************************)
EXTENDS Integers, Sequences, FiniteSets, TLC

VARIABLES
    \* ---- the cloud, as the calls of one command see it
    stack_resources,  \* StackResourceSummaries: the ResourceType of each entry
    environment,      \* environment of the task definition's first container
    cf_error,         \* error code list_stack_resources fails with, or NoError
    ecs_error,        \* error code describe_task_definition fails with, or NoError
    store,            \* the bucket: key -> [present, tags]
    \* ---- the configuration and the command line
    config,           \* the [tags] section of config.ini and the user name
    command,          \* the command that runs
    opt,              \* its options
    videos,           \* what check_videos returned
    \* ---- the command's control state
    pc,               \* where the command is
    resources,        \* what get_resources returned
    tags,             \* what get_tags returned
    vi,               \* index of the video the loop of batchprocess_command is at
    loaded,           \* batchprocess_command's `loaded`
    total_submitted,  \* batchprocess_command's counter
    error,            \* the exception the command ended with, or NoError
    \* ---- one call of video_data / training_data
    vd,               \* its frame: function, files, index, tags, position, result
    runs,             \* how many calls of it have been started
    completed,        \* the calls among those that returned normally
    waiting,          \* the frame of a second, concurrent call while it is not scheduled
    \* ---- the dispatch strategies of process.py
    sp,               \* one call of script_processor_run: its frame
    job_cache,        \* JobCache: the status recorded for each job and each media
    queue,            \* the messages published to the video queue, in order
    \* ---- what the command did to the world, in order
    calls

vars == <<stack_resources, environment, cf_error, ecs_error, store,
          config, command, opt, videos, pc, resources, tags, vi, loaded,
          total_submitted, error, vd, runs, completed, waiting, sp, job_cache,
          queue, calls>>

cloudVars == <<stack_resources, environment, cf_error, ecs_error>>
inputVars == <<config, command, opt, videos>>
dispatchVars == <<sp, job_cache, queue>>

-----------------------------------------------------------------------------
(* Bounds *)

MaxResources == 2   \* longest stack listing
MaxVideos == 2      \* longest file list
MaxRuns == 2        \* calls of video_data in a row over the same files
MaxLen == 2         \* longest job description, in characters

-----------------------------------------------------------------------------
(* Strings *)

NoError == <<>>

\* Python's `sub in s` on strings.
Contains(sub, s) ==
    \E i \in 1..(Len(s) - Len(sub) + 1) : SubSeq(s, i, i + Len(sub) - 1) = sub

-----------------------------------------------------------------------------
(* Config.get_resources *)

\* What a call returns: a map (kind "map"), None (kind "None") or an exception
\* (kind "raise", exc its type, msg its message).
Returned(m) == [kind |-> "map", map |-> m, exc |-> "", msg |-> ""]
None == [kind |-> "None", map |-> [k \in {} |-> ""], exc |-> "", msg |-> ""]
Raised(e, m) == [kind |-> "raise", map |-> [k \in {} |-> ""], exc |-> e, msg |-> m]

TaskDefinitionType == <<"AWS", "ECS", "TaskDefinition">>
AutoScalingGroupType == <<"AWS", "AutoScaling", "AutoScalingGroup">>
QueueType == <<"AWS", "SQS", "Queue">>

\* The entries a stack listing is made of.
StackEntries ==
    { [ResourceType |-> TaskDefinitionType, PhysicalResourceId |-> "arn:task-def"],
      [ResourceType |-> AutoScalingGroupType, PhysicalResourceId |-> "asg-1"],
      [ResourceType |-> QueueType, PhysicalResourceId |-> "queue-1"] }

\* The list `key` of get_resources, in its order, and each key as a string.
key == <<"PROCESSOR", "TRACK_QUEUE", "VIDEO_QUEUE", "DEAD_QUEUE", "TRACK_BUCKET", "VIDEO_BUCKET">>
KeyString(k) ==
    CASE k = "PROCESSOR" -> <<"PROCESSOR">>
      [] k = "TRACK_QUEUE" -> <<"TRACK", "QUEUE">>
      [] k = "VIDEO_QUEUE" -> <<"VIDEO", "QUEUE">>
      [] k = "DEAD_QUEUE" -> <<"DEAD", "QUEUE">>
      [] k = "TRACK_BUCKET" -> <<"TRACK", "BUCKET">>
      [] k = "VIDEO_BUCKET" -> <<"VIDEO", "BUCKET">>

RequiredKeys == {key[i] : i \in 1..Len(key)}

\* for k in key: if k in e['name']: resources[k] = e['value']
RECURSIVE MatchKeys(_, _, _)
MatchKeys(res, e, j) ==
    IF j > Len(key) THEN res
    ELSE MatchKeys(IF Contains(KeyString(key[j]), e.name)
                       THEN (key[j] :> e.value) @@ res
                       ELSE res,
                   e, j + 1)

\* for e in environment: ...
RECURSIVE MatchEnvironment(_, _, _)
MatchEnvironment(res, env, i) ==
    IF i > Len(env) THEN res
    ELSE MatchEnvironment(MatchKeys(res, env[i], 1), env, i + 1)

\* except ClientError as ex: ...; return None
OnClientError(code) ==
    IF Contains(<<"AccessDenied">>, code) THEN Raised("Exception", "Access denied")
    ELSE IF Contains(<<"ExpiredToken">>, code) THEN Raised("Exception", "Token expired")
    ELSE None

\* for r in stack_resources['StackResourceSummaries']: ...
RECURSIVE ScanResources(_, _, _, _, _)
ScanResources(res, stack, env, ecsErr, i) ==
    IF i > Len(stack) THEN Returned(res)
    ELSE IF Contains(TaskDefinitionType, stack[i].ResourceType)
         THEN IF ecsErr # NoError
              THEN OnClientError(ecsErr)
              ELSE Returned(MatchEnvironment(res, env, 1))      \* break
         ELSE IF Contains(AutoScalingGroupType, stack[i].ResourceType)
              THEN ScanResources(("ASG" :> stack[i].PhysicalResourceId) @@ res,
                                 stack, env, ecsErr, i + 1)
              ELSE ScanResources(res, stack, env, ecsErr, i + 1)

get_resources(stack_name, stack, env, cfErr, ecsErr) ==
    IF cfErr # NoError
    THEN OnClientError(cfErr)
    ELSE ScanResources(("CLUSTER" :> stack_name), stack, env, ecsErr, 1)

\* Python's truth value of what get_resources returned: `if resources:`.
Truthy(r) == r.kind = "map" /\ DOMAIN r.map # {}

\* resources[k]: the value, or the exception the subscript raises.
HasKey(r, k) == r.kind = "map" /\ k \in DOMAIN r.map
SubscriptError(r) == IF r.kind = "map" THEN "KeyError" ELSE "TypeError"

-----------------------------------------------------------------------------
(* Config.get_tags *)

\* A tag value is a sequence of characters; NoneValue is Python's None (the
\* job description of a process command given no --job-description).
NoneValue == <<"<None>">>

allowed_chars == { "+", "-", "=", ".", "_", ":", "/", "@" }
allowed_letters ==
    { "a", "b", "c", "d", "e", "f", "g", "h", "i", "j", "k", "l", "m",
      "n", "o", "p", "q", "r", "s", "t", "u", "v", "w", "x", "y", "z",
      "A", "B", "C", "D", "E", "F", "G", "H", "I", "J", "K", "L", "M",
      "N", "O", "P", "Q", "R", "S", "T", "U", "V", "W", "X", "Y", "Z" }
allowed_numbers == { "0", "1", "2", "3", "4", "5", "6", "7", "8", "9" }
allowed == allowed_chars \cup allowed_letters \cup allowed_numbers

\* The characters the values of the model are written in.
Chars == { "a", "7", "-", " ", "!" }

Range(s) == {s[i] : i \in 1..Len(s)}

\* (utcnow() + 90 days).strftime('%Y%m%dT%H%M%SZ'): digits, a T, digits, a Z.
DeletionDates == { <<"2", "0", "T", "0", "7", "Z">>, <<"2", "1", "T", "0", "7", "Z">> }

\* tag_dict of get_tags: seven key/value pairs, in the code's order.
TagDict(cfg, description, deletion_date) ==
    << [Key |-> cfg.organization \o <<":", "project-number">>, Value |-> cfg.project_number],
       [Key |-> cfg.organization \o <<":", "owner">>, Value |-> cfg.user_name],
       [Key |-> cfg.organization \o <<":", "description">>, Value |-> description],
       [Key |-> cfg.organization \o <<":", "stage">>, Value |-> cfg.stage],
       [Key |-> cfg.organization \o <<":", "application">>, Value |-> cfg.application],
       [Key |-> cfg.organization \o <<":", "deletion-date">>, Value |-> deletion_date],
       [Key |-> cfg.organization \o <<":", "created-by">>, Value |-> cfg.user_name] >>

\* not any(char in tag['Value'] for char in allowed)
TagRejected(value) == ~ (\E char \in allowed : char \in Range(value))

\* What get_tags returns: the list (kind "list") or the exception it ends with.
\* `char in None` raises TypeError, and so does `raise (msg)` with msg a str.
TagsReturned(t) == [kind |-> "list", tags |-> t, exc |-> ""]
TagsRaised(e) == [kind |-> "raise", tags |-> <<>>, exc |-> e]

\* for tag in tag_dict: ...
RECURSIVE CheckTags(_, _)
CheckTags(tag_dict, i) ==
    IF i > Len(tag_dict) THEN TagsReturned(tag_dict)
    ELSE IF tag_dict[i].Value = NoneValue THEN TagsRaised("TypeError")
    ELSE IF TagRejected(tag_dict[i].Value) THEN TagsRaised("TypeError")
    ELSE CheckTags(tag_dict, i + 1)

get_tags(cfg, description, deletion_date) ==
    CheckTags(TagDict(cfg, description, deletion_date), 1)

-----------------------------------------------------------------------------
(* upload_tag.video_data and upload_tag.training_data *)

Max(S) == CHOOSE x \in S : \A y \in S : y <= x

\* s.split(sep)[-1]: what follows the last occurrence of sep, or all of s.
SplitLast(s, sep) ==
    LET at == {i \in 1..(Len(s) - Len(sep) + 1) : SubSeq(s, i, i + Len(sep) - 1) = sep}
    IN  IF at = {} THEN s ELSE SubSeq(s, Max(at) + Len(sep), Len(s))

\* s.lstrip('/')
RECURSIVE LStrip(_)
LStrip(s) == IF s # <<>> /\ Head(s) = "/" THEN LStrip(Tail(s)) ELSE s

\* Local files: the parent directory (as_posix) and the name.
Files ==
    { [parent |-> <<"/", "Volumes", "/", "M3", "/", "d1">>, name |-> "a.mp4"],
      [parent |-> <<"/", "Volumes", "/", "M3", "/", "d1">>, name |-> "b.mp4"],
      [parent |-> <<"/", "mnt", "/", "data", "/", "dive1">>, name |-> "clip1.mp4"] }

\* urlparse of a destination: the bucket (netloc) and the path.
Destinations ==
    { [netloc |-> "bucket", path |-> <<>>],
      [netloc |-> "bucket", path |-> <<"/", "in">>] }

default_training_prefix == <<"training">>

\* prefix_path = v.parent.as_posix().split("Volumes/")[-1]
PrefixPath(v) == SplitLast(v.parent, <<"Volumes", "/">>)

\* training_data's prefix_path once the first i files are done: set from the
\* first file that gives a non-empty one.
RECURSIVE TrainingPrefix(_, _)
TrainingPrefix(data, i) ==
    IF i = 0 THEN <<>>
    ELSE LET p == TrainingPrefix(data, i - 1)
         IN  IF p = <<>> THEN LStrip(PrefixPath(data[i])) ELSE p

\* target_prefix of the i-th file.
TargetKey(fn, files, input_s3, i) ==
    IF fn = "video_data"
    THEN input_s3.path \o PrefixPath(files[i]) \o <<"/", files[i].name>>
    ELSE TrainingPrefix(files, i) \o <<"/">> \o default_training_prefix
             \o <<"/", files[i].name>>

NoTags == <<>>
NoKey == <<>>
\* An entry of `calls`: the operation, the key or name it is about, the call of
\* video_data / training_data it belongs to (0: none) and how it ended.
CallR(op, k, run, result) == [op |-> op, key |-> k, run |-> run, result |-> result]
Call(op, k, run) == CallR(op, k, run, "ok")

\* What the storage service can answer. A probe (Object.load) of a stored key
\* succeeds, of a missing key fails with 404; either may fail with another
\* error. Tagging a missing key fails with NoSuchKey.
ProbeOutcomes(st, k) == (IF k \in DOMAIN st THEN {"found"} ELSE {"404"}) \cup {"403"}
UploadOutcomes == {"ok", "error"}
TagOutcomes(st, k) == IF k \in DOMAIN st THEN {"ok", "AccessDenied"} ELSE {"NoSuchKey"}

\* try: load() / except ClientError: if Code == "404": upload; else: raise / else: skip
\* ProbeBranch is the code's branch; the two before it are faulty variants (one
\* uploads a key that is there, one uploads after a failed probe) that the
\* properties of video_data must tell from it.
ProbeBranchUploadsFound(outcome) ==
    IF outcome = "found" THEN "upload" ELSE IF outcome = "404" THEN "upload" ELSE "raise"
ProbeBranchUploadsOnError(outcome) ==
    IF outcome = "found" THEN "tag" ELSE "upload"
ProbeBranch(outcome) ==
    IF outcome = "found" THEN "tag" ELSE IF outcome = "404" THEN "upload" ELSE "raise"

\* try: upload_fileobj / except: print("error in uploading to s3"): whatever
\* the upload did, the loop goes on to the tagging
UploadBranch(outcome) == "tag"

\* What the function returns at the end: video_data has no return statement,
\* training_data returns (output, size).
VdNone == [kind |-> "None", code |-> ""]
VdPair == [kind |-> "pair", code |-> ""]
VdRaised(code) == [kind |-> "raise", code |-> code]
ReturnValue(fn) == IF fn = "video_data" THEN VdNone ELSE VdPair

VdIdle ==
    [fn |-> "", videos |-> <<>>, input_s3 |-> [netloc |-> "", path |-> <<>>], tags |-> NoTags,
     i |-> 0, pc |-> "idle", result |-> VdNone, run |-> 0]

\* The frame of a call: at the probe of the first file, or returned at once
\* when there is no file.
VdFrame(fn, files, input_s3, t, run) ==
    [fn |-> fn, videos |-> files, input_s3 |-> input_s3, tags |-> t,
     i |-> IF files = <<>> THEN 0 ELSE 1,
     pc |-> IF files = <<>> THEN "done" ELSE "probe",
     result |-> ReturnValue(fn), run |-> run]

VdKey == TargetKey(vd.fn, vd.videos, vd.input_s3, vd.i)
VdReturn(frame) == [frame EXCEPT !.pc = "done", !.result = ReturnValue(frame.fn)]
VdRaise(frame, code) == [frame EXCEPT !.pc = "done", !.result = VdRaised(code)]

\* s3_resource.Object(netloc, target_prefix).load()
VdProbe ==
    /\ vd.pc = "probe"
    /\ \E outcome \in ProbeOutcomes(store, VdKey) :
         /\ calls' = Append(calls, CallR("probe", VdKey, vd.run, outcome))
         /\ vd' = IF ProbeBranch(outcome) = "raise"
                  THEN VdRaise(vd, outcome)
                  ELSE [vd EXCEPT !.pc = ProbeBranch(outcome)]
    /\ UNCHANGED <<cloudVars, inputVars, waiting, dispatchVars,
                   store, pc, resources, tags, vi, loaded,
                   total_submitted, error, runs, completed>>

\* s3.upload_fileobj(f, netloc, target_prefix): a new object carries no tags
VdUpload ==
    /\ vd.pc = "upload"
    /\ \E outcome \in UploadOutcomes :
         /\ calls' = Append(calls, CallR("upload", VdKey, vd.run, outcome))
         /\ store' = IF outcome = "ok" THEN (VdKey :> NoTags) @@ store ELSE store
         /\ vd' = IF UploadBranch(outcome) = "tag"
                  THEN [vd EXCEPT !.pc = "tag"]
                  ELSE VdRaise(vd, outcome)
    /\ UNCHANGED <<cloudVars, inputVars, waiting, dispatchVars,
                   pc, resources, tags, vi, loaded,
                   total_submitted, error, runs, completed>>

\* The bucket after s3.put_object_tagging(Bucket, Key, Tagging={'TagSet': tags}):
\* the object's tag set is replaced (before it, a faulty variant that leaves
\* the tags of an object that has some).
put_object_taggingKeepsFirst(st, k, t) ==
    IF k \in DOMAIN st /\ st[k] # NoTags THEN st ELSE (k :> t) @@ st
put_object_tagging(st, k, t) == (k :> t) @@ st

\* s3.put_object_tagging(Bucket, Key, Tagging={'TagSet': tags}), then the next
\* file or the end of the function
VdTag ==
    /\ vd.pc = "tag"
    /\ \E outcome \in TagOutcomes(store, VdKey) :
         /\ calls' = Append(calls, CallR("tag", VdKey, vd.run, outcome))
         /\ IF outcome = "ok"
            THEN /\ store' = put_object_tagging(store, VdKey, vd.tags)
                 /\ IF vd.i < Len(vd.videos)
                    THEN /\ vd' = [vd EXCEPT !.i = vd.i + 1, !.pc = "probe"]
                         /\ UNCHANGED completed
                    ELSE /\ vd' = VdReturn(vd)
                         /\ completed' = completed \cup {vd.run}
            ELSE /\ vd' = VdRaise(vd, outcome)
                 /\ UNCHANGED <<store, completed>>
    /\ UNCHANGED <<cloudVars, inputVars, waiting, dispatchVars,
                   pc, resources, tags, vi, loaded,
                   total_submitted, error, runs>>

-----------------------------------------------------------------------------
(* JobCache, and the frame of one call of script_processor_run *)

JobStatus == {"QUEUED", "RUNNING", "SUCCESS", "FAILED"}

\* Nothing recorded yet.
EmptyJobCache == [job |-> <<>>, media |-> <<>>]

\* The key a media status is kept under: the job name and the media name.
MediaKey(job, media) == job \o <<"#">> \o media

\* JobCache().set_job(name, processor, media, status): the last write stands.
set_job(cache, name, processor, media, status) ==
    [cache EXCEPT !.job =
        (name :> [status |-> status, processor |-> processor, media |-> media]) @@ @]

\* JobCache().set_media(job, media, status): the last write stands.
set_media(cache, job, media, status) ==
    [cache EXCEPT !.media = (MediaKey(job, media) :> status) @@ @]

\* What a call of script_processor_run ended with.
SpNone == [kind |-> "None", exc |-> "", msg |-> <<>>]
SpReturned == [kind |-> "return", exc |-> "", msg |-> <<>>]
SpRaised(e, m) == [kind |-> "raise", exc |-> e, msg |-> m]

SpIdle ==
    [pc |-> "idle", run |-> 0, job |-> <<>>, arguments |-> <<>>, listing |-> <<>>,
     videos |-> <<>>, w |-> 0, job_status |-> "", reason |-> "", result |-> SpNone]

-----------------------------------------------------------------------------
(* The inputs of the commands *)

NoException == ""

\* The [tags] section of config.ini and the user name get_username returns.
DefaultConfig ==
    [organization |-> <<"m", "b", "a", "r", "i">>, project_number |-> <<"9", "0", "2">>,
     stage |-> <<"d", "e", "v">>, application |-> <<"d", "e", "t">>,
     user_name |-> <<"d", "c">>]
Configs == { DefaultConfig, [DefaultConfig EXCEPT !.stage = <<>>] }

\* Environments of a task definition: name and value of each variable.
Env(name, value) == [name |-> name, value |-> value]
FullEnvironment ==
    << Env(<<"AWS", "REGION">>, "us-west-2"),
       Env(<<"PROCESSOR">>, "yolov5-proc"),
       Env(<<"TRACK", "QUEUE">>, "demo-track-q"),
       Env(<<"VIDEO", "QUEUE">>, "demo-video-q"),
       Env(<<"DEAD", "QUEUE">>, "demo-dead-q"),
       Env(<<"TRACK", "BUCKET">>, "demo-out"),
       Env(<<"VIDEO", "BUCKET">>, "demo-in") >>
Without(env, names) == SelectSeq(env, LAMBDA e : e.name \notin names)
Environments ==
    { FullEnvironment,
      Without(FullEnvironment, {<<"TRACK", "QUEUE">>, <<"DEAD", "QUEUE">>}),
      Without(FullEnvironment, {<<"VIDEO", "QUEUE">>}),
      <<>> }

ErrorCodes == { <<"AccessDenied", "Exception">>, <<"ExpiredToken">>, <<"ValidationError">> }

SeqsUpTo(S, n) == UNION {[1..m -> S] : m \in 0..n}
Injective(s) == \A i, j \in 1..Len(s) : s[i] = s[j] => i = j

\* A location that was not given (None or the empty string: both are falsy).
NoLocation == <<>>

\* The options of a command; a command reads only its own. The dispatch options
\* start at the defaults of the command line.
Options(check, upload, dry_run, description, input_s3, fn) ==
    [check |-> check, upload |-> upload, dry_run |-> dry_run,
     job_description |-> description, input_s3 |-> input_s3, fn |-> fn,
     clean |-> TRUE, job |-> <<"DiveV1">>, conf_thres |-> "0.01", iou_thres |-> "0.1",
     tracker |-> "deepsort", config_s3 |-> NoLocation, reid_model_url |-> NoLocation,
     save_vid |-> FALSE]

EmptyStore == [k \in {} |-> NoTags]
OldTags == <<[Key |-> <<"old">>, Value |-> <<"a">>]>>

\* The stores a call can find: any of the files' objects already there.
KeysOf(fn, files, input_s3) == {TargetKey(fn, files, input_s3, i) : i \in 1..Len(files)}
StoresOver(keys) == UNION {[S -> {OldTags}] : S \in SUBSET keys}

IdleCommand ==
    /\ pc = "start"
    /\ resources = None
    /\ tags = TagsReturned(NoTags)
    /\ vi = 0
    /\ loaded = FALSE
    /\ total_submitted = 0
    /\ error = NoException
    /\ vd = VdIdle
    /\ runs = 0
    /\ completed = {}
    /\ waiting = VdIdle
    /\ sp = SpIdle
    /\ job_cache = EmptyJobCache
    /\ queue = <<>>
    /\ calls = <<>>

NoCloud ==
    /\ stack_resources = <<>>
    /\ environment = <<>>
    /\ cf_error = NoError
    /\ ecs_error = NoError

-----------------------------------------------------------------------------
(* batchprocess_command and monitor_command *)

End(e) == pc' = "exit" /\ error' = e

\* resources = custom_config.get_resources(cluster), in both commands
CallGetResources ==
    /\ command \in {"batchprocess", "monitor"}
    /\ pc = "start"
    /\ LET r == get_resources("demo-cluster", stack_resources, environment,
                              cf_error, ecs_error)
       IN  /\ resources' = r
           /\ IF r.kind = "raise"
              THEN End(r.exc)
              ELSE /\ pc' = IF command = "monitor" THEN "monitor" ELSE "get_tags"
                   /\ UNCHANGED error
    /\ UNCHANGED <<cloudVars, inputVars, waiting, dispatchVars,
                   store, tags, vi, loaded, total_submitted,
                   vd, runs, completed, calls>>

\* if resources: Monitor(...).start(); join()  else: warn('No resources found ...')
MonitorCommand ==
    /\ command = "monitor"
    /\ pc = "monitor"
    /\ IF Truthy(resources)
       THEN /\ calls' = Append(calls, Call("monitor_start", NoKey, 0))
            /\ pc' = "monitoring"
       ELSE /\ calls' = Append(calls, Call("warn_no_resources", NoKey, 0))
            /\ pc' = "exit"
    /\ UNCHANGED <<cloudVars, inputVars, waiting, dispatchVars,
                   store, resources, tags, vi, loaded,
                   total_submitted, error, vd, runs, completed>>

\* f'Video uploaded from {input} by user {user_name} '
BatchDescription(cfg) == <<"V", " ", "b", "y", " ">> \o cfg.user_name \o <<" ">>

\* tags = custom_config.get_tags(...), after check_videos
BatchGetTags ==
    /\ command = "batchprocess"
    /\ pc = "get_tags"
    /\ \E d \in DeletionDates :
         LET t == get_tags(config, BatchDescription(config), d)
         IN  /\ tags' = t
             /\ IF t.kind = "raise"
                THEN End(t.exc) /\ UNCHANGED vi
                ELSE pc' = "lookup" /\ vi' = 1 /\ UNCHANGED error
    /\ UNCHANGED <<cloudVars, inputVars, waiting, dispatchVars,
                   store, resources, loaded, total_submitted,
                   vd, runs, completed, calls>>

\* The variables of the lookup query: processing_job_name is
\* f"{resources['PROCESSOR']}-{job}", media_name is v.name.
LookupKey(res, job, v) == <<res.map["PROCESSOR"], "-">> \o job \o <<"|", v.name>>

\* if len(medias['data']['mediaInJob']) > 0: loaded = True
LookupOutcomes == {"found", "none"}

\* for v in videos: loaded = False; if database: medias = database.execute(...)
BatchLookup ==
    /\ command = "batchprocess"
    /\ pc = "lookup"
    /\ vi <= Len(videos)
    /\ IF ~ opt.check
       THEN /\ loaded' = FALSE
            /\ pc' = "upload"
            /\ UNCHANGED <<error, calls>>
       ELSE IF ~ HasKey(resources, "PROCESSOR")
            THEN /\ loaded' = FALSE
                 /\ End(SubscriptError(resources))
                 /\ UNCHANGED calls
            ELSE \E outcome \in LookupOutcomes :
                 /\ calls' = Append(calls, CallR("lookup",
                                 LookupKey(resources, opt.job, videos[vi]), 0, outcome))
                 /\ loaded' = (outcome = "found")
                 /\ pc' = "upload"
                 /\ UNCHANGED error
    /\ UNCHANGED <<cloudVars, inputVars, waiting, dispatchVars,
                   store, resources, tags, vi, total_submitted,
                   vd, runs, completed>>

\* if upload and not loaded: if dry_run: info(...) else: upload_tag.video_data(...)
\* UploadStep is the code's choice; before it, a faulty variant that uploads in
\* a dry run too.
UploadStepInDryRun(o, isLoaded) ==
    IF ~ (o.upload /\ ~ isLoaded) THEN "skip" ELSE "video_data"
UploadStep(o, isLoaded) ==
    IF ~ (o.upload /\ ~ isLoaded) THEN "skip"
    ELSE IF o.dry_run THEN "dry_run" ELSE "video_data"

\* if upload and not loaded: upload_tag.video_data([v], urlparse(...), tags)
BatchUpload ==
    /\ command = "batchprocess"
    /\ pc = "upload"
    /\ IF UploadStep(opt, loaded) = "skip"
       THEN pc' = "submit" /\ UNCHANGED <<error, vd, runs>>
       ELSE IF ~ HasKey(resources, "VIDEO_BUCKET")
            THEN End(SubscriptError(resources)) /\ UNCHANGED <<vd, runs>>
            ELSE IF UploadStep(opt, loaded) = "dry_run"
                 THEN pc' = "submit" /\ UNCHANGED <<error, vd, runs>>
                 ELSE /\ vd' = VdFrame("video_data", <<videos[vi]>>,
                                       [netloc |-> resources.map["VIDEO_BUCKET"],
                                        path |-> <<>>],
                                       tags.tags, runs + 1)
                      /\ runs' = runs + 1
                      /\ pc' = "in_video_data"
                      /\ UNCHANGED error
    /\ UNCHANGED <<cloudVars, inputVars, waiting, dispatchVars,
                   store, resources, tags, vi, loaded,
                   total_submitted, completed, calls>>

\* video_data is back: its exception ends the command
BatchAfterUpload ==
    /\ command = "batchprocess"
    /\ pc = "in_video_data"
    /\ vd.pc = "done"
    /\ IF vd.result.kind = "raise"
       THEN End("ClientError")
       ELSE pc' = "submit" /\ UNCHANGED error
    /\ UNCHANGED <<cloudVars, inputVars, waiting, dispatchVars,
                   store, resources, tags, vi, loaded,
                   total_submitted, vd, runs, completed, calls>>

\* get_prefix(video_path) of batch_run
get_prefix(v) == PrefixPath(v)

\* message_dict of batch_run, which json.dumps turns into the message body
\* (before it, a faulty variant that always asks for the clean-up).
MessageCleanAlways(video_path, job_name, user_name, clean, conf_thres, iou_thres) ==
    [video |-> get_prefix(video_path) \o <<"/", video_path.name>>,
     clean |-> "True",
     user_name |-> user_name,
     job_name |-> job_name,
     conf_thres |-> conf_thres,
     iou_thres |-> iou_thres]
Message(video_path, job_name, user_name, clean, conf_thres, iou_thres) ==
    [video |-> get_prefix(video_path) \o <<"/", video_path.name>>,
     clean |-> IF clean THEN "True" ELSE "False",
     user_name |-> user_name,
     job_name |-> job_name,
     conf_thres |-> conf_thres,
     iou_thres |-> iou_thres]

\* sqs.get_queue_by_name(...) and queue.send_message(...): done, or a client error
SendOutcomes == {"ok", "error"}

\* What batch_run does once it has the queue name, in order: the message, then
\* the two JobCache writes (before it, a faulty variant that writes first).
BatchRunCallsCacheFirst(v, job_name, run, outcome) ==
    << CallR("set_job", job_name, run, "QUEUED"),
       CallR("set_media", MediaKey(job_name, <<v.name>>), run, "QUEUED"),
       CallR("send_message", get_prefix(v) \o <<"/", v.name>>, run, outcome) >>

BatchRunCalls(v, job_name, run, outcome) ==
    <<CallR("send_message", get_prefix(v) \o <<"/", v.name>>, run, outcome)>>
    \o (IF outcome = "ok"
        THEN << CallR("set_job", job_name, run, "QUEUED"),
                CallR("set_media", MediaKey(job_name, <<v.name>>), run, "QUEUED") >>
        ELSE <<>>)

\* The queue after batch_run: the message, sent under a group id made of the
\* cluster name and the time.
BatchRunQueue(q, res, message, outcome) ==
    IF outcome = "ok"
    THEN Append(q, [queue |-> res.map["VIDEO_QUEUE"], body |-> message,
                    group |-> <<res.map["CLUSTER"], "<now>">>])
    ELSE q

\* JobCache after batch_run: the job, with this one video, and the media QUEUED.
BatchRunCache(cache, res, v, job_name, outcome) ==
    IF outcome = "ok"
    THEN set_media(set_job(cache, job_name, res.map["CLUSTER"], <<<<v.name>>>>, "QUEUED"),
                   job_name, <<v.name>>, "QUEUED")
    ELSE cache

\* if not loaded: if dry_run: info(...) else: process.batch_run(...)
\* SubmitStep is the code's choice; before it, a faulty variant that submits a
\* video the lookup has found.
SubmitStepWhenLoaded(o, isLoaded) == IF o.dry_run THEN "dry_run" ELSE "batch_run"
SubmitStep(o, isLoaded) ==
    IF isLoaded THEN "skip" ELSE IF o.dry_run THEN "dry_run" ELSE "batch_run"

\* if not loaded: process.batch_run(...); total_submitted += 1, then the next video
BatchSubmit ==
    /\ command = "batchprocess"
    /\ pc = "submit"
    /\ IF SubmitStep(opt, loaded) = "skip"
       THEN /\ pc' = "lookup" /\ vi' = vi + 1
            /\ UNCHANGED <<error, total_submitted, calls, job_cache, queue>>
       ELSE IF ~ HasKey(resources, IF SubmitStep(opt, loaded) = "dry_run"
                                   THEN "PROCESSOR" ELSE "VIDEO_QUEUE")
            THEN /\ End(SubscriptError(resources))
                 /\ UNCHANGED <<vi, total_submitted, calls, job_cache, queue>>
            ELSE IF SubmitStep(opt, loaded) = "dry_run"
                 THEN /\ total_submitted' = total_submitted + 1
                      /\ pc' = "lookup" /\ vi' = vi + 1
                      /\ UNCHANGED <<error, calls, job_cache, queue>>
                 ELSE \E outcome \in SendOutcomes :
                        /\ calls' = calls \o BatchRunCalls(videos[vi], opt.job, 0, outcome)
                        /\ queue' = BatchRunQueue(queue, resources,
                                        Message(videos[vi], opt.job, config.user_name,
                                                opt.clean, opt.conf_thres, opt.iou_thres),
                                        outcome)
                        /\ job_cache' = BatchRunCache(job_cache, resources, videos[vi],
                                                      opt.job, outcome)
                        /\ IF outcome = "ok"
                           THEN /\ total_submitted' = total_submitted + 1
                                /\ pc' = "lookup" /\ vi' = vi + 1
                                /\ UNCHANGED error
                           ELSE /\ End("ClientError")
                                /\ UNCHANGED <<vi, total_submitted>>
    /\ UNCHANGED <<cloudVars, inputVars, waiting, sp,
                   store, resources, tags, loaded,
                   vd, runs, completed>>

\* info(f'==== Submitted {total_submitted} videos to {resources["PROCESSOR"]} ...')
BatchSummary ==
    /\ command = "batchprocess"
    /\ pc = "lookup"
    /\ vi > Len(videos)
    /\ IF HasKey(resources, "PROCESSOR")
       THEN End(NoException)
       ELSE End(SubscriptError(resources))
    /\ UNCHANGED <<cloudVars, inputVars, waiting, dispatchVars,
                   store, resources, tags, vi, loaded,
                   total_submitted, vd, runs, completed, calls>>

\* check_videos walks one input folder: each file once, in the walk's order.
WalkRank(v) == IF v.name = "a.mp4" THEN 1 ELSE IF v.name = "b.mp4" THEN 2 ELSE 3
InWalkOrder(s) == \A i, j \in 1..Len(s) : i < j => WalkRank(s[i]) < WalkRank(s[j])

InitResolve ==
    /\ stack_resources \in SeqsUpTo(StackEntries, MaxResources)
    /\ environment \in Environments
    /\ cf_error \in ErrorCodes \cup {NoError}
    /\ ecs_error \in ErrorCodes \cup {NoError}
    /\ cf_error = NoError \/ ecs_error = NoError
    /\ store = EmptyStore
    /\ config = DefaultConfig
    /\ \/ /\ command = "monitor"
          /\ opt = Options(FALSE, FALSE, FALSE, NoneValue, [netloc |-> "", path |-> <<>>], "")
          /\ videos = <<>>
       \/ /\ command = "batchprocess"
          /\ \E check, upload, dry_run \in BOOLEAN :
               opt = Options(check, upload, dry_run, NoneValue,
                             [netloc |-> "", path |-> <<>>], "video_data")
          /\ videos \in {s \in SeqsUpTo(Files, MaxVideos) : s # <<>> /\ InWalkOrder(s)}
    /\ IdleCommand

NextResolve ==
    \/ CallGetResources
    \/ MonitorCommand
    \/ BatchGetTags
    \/ BatchLookup
    \/ BatchUpload
    \/ VdProbe
    \/ VdUpload
    \/ VdTag
    \/ BatchAfterUpload
    \/ BatchSubmit
    \/ BatchSummary

SpecResolve == InitResolve /\ [][NextResolve]_vars

-----------------------------------------------------------------------------
(* process_command *)

\* tags = custom_config.get_tags(job_description), the first call of the command
ProcessGetTags ==
    /\ command = "process"
    /\ pc = "start"
    /\ \E d \in DeletionDates :
         LET t == get_tags(config, opt.job_description, d)
         IN  /\ tags' = t
             /\ IF t.kind = "raise"
                THEN End(t.exc)
                ELSE pc' = "create_buckets" /\ UNCHANGED error
    /\ UNCHANGED <<cloudVars, inputVars, waiting, dispatchVars,
                   store, resources, vi, loaded, total_submitted,
                   vd, runs, completed, calls>>

\* bucket.create(bucket, tags): whether the bucket is there afterwards
BucketCreateOutcomes == BOOLEAN

\* if bucket.create(input_s3, tags) and bucket.create(output_s3, tags):
ProcessCreateBuckets ==
    /\ command = "process"
    /\ pc = "create_buckets"
    /\ \E input_ok, output_ok \in BucketCreateOutcomes :
         /\ calls' = calls \o <<Call("create_bucket", <<"input">>, 0)>>
                           \o (IF input_ok THEN <<Call("create_bucket", <<"output">>, 0)>>
                               ELSE <<>>)
         /\ IF input_ok /\ output_ok
            THEN pc' = "upload" /\ UNCHANGED error
            ELSE End(NoException)
    /\ UNCHANGED <<cloudVars, inputVars, waiting, dispatchVars,
                   store, resources, tags, vi, loaded,
                   total_submitted, vd, runs, completed>>

\* videos = check_videos(...); ... = upload_tag.video_data(videos, input_s3, tags)
ProcessUpload ==
    /\ command = "process"
    /\ pc = "upload"
    /\ vd' = VdFrame("video_data", videos, opt.input_s3, tags.tags, runs + 1)
    /\ runs' = runs + 1
    /\ pc' = "in_video_data"
    /\ UNCHANGED <<cloudVars, inputVars, waiting, dispatchVars,
                   store, resources, tags, vi, loaded,
                   total_submitted, error, completed, calls>>

\* input_s3, size_gb = <what video_data returned>: unpacking None is a TypeError;
\* with a pair the command sizes the volume and calls script_processor_run
ProcessAfterUpload ==
    /\ command = "process"
    /\ pc = "in_video_data"
    /\ vd.pc = "done"
    /\ IF vd.result.kind = "raise"
       THEN End("ClientError") /\ UNCHANGED calls
       ELSE IF vd.result.kind # "pair"
            THEN End("TypeError") /\ UNCHANGED calls
            ELSE /\ calls' = Append(calls, Call("script_processor_run", NoKey, 0))
                 /\ pc' = "script_processor_run"
                 /\ UNCHANGED error
    /\ UNCHANGED <<cloudVars, inputVars, waiting, dispatchVars,
                   store, resources, tags, vi, loaded,
                   total_submitted, vd, runs, completed>>

Descriptions == {NoneValue} \cup SeqsUpTo(Chars, MaxLen)

InitProcess ==
    /\ NoCloud
    /\ config \in Configs
    /\ command = "process"
    /\ \E description \in Descriptions, input_s3 \in Destinations :
         opt = Options(FALSE, FALSE, FALSE, description, input_s3, "video_data")
    /\ videos \in {s \in SeqsUpTo(Files, MaxVideos) : s # <<>> /\ Injective(s)}
    /\ store \in {EmptyStore,
                  [k \in KeysOf("video_data", videos, opt.input_s3) |-> OldTags]}
    /\ IdleCommand

NextProcess ==
    \/ ProcessGetTags
    \/ ProcessCreateBuckets
    \/ ProcessUpload
    \/ VdProbe
    \/ VdUpload
    \/ VdTag
    \/ ProcessAfterUpload

SpecProcess == InitProcess /\ [][NextProcess]_vars

-----------------------------------------------------------------------------
(* A caller of video_data / training_data, calling again over the same files *)

CallDescription == <<"a">>

CallUploadTag ==
    /\ command = "call"
    /\ vd.pc \in {"idle", "done"}
    /\ runs < MaxRuns
    /\ \E d \in DeletionDates :
         /\ tags' = get_tags(config, CallDescription, d)
         /\ vd' = VdFrame(opt.fn, videos, opt.input_s3, tags'.tags, runs + 1)
    /\ runs' = runs + 1
    /\ completed' = IF videos = <<>> THEN completed \cup {runs + 1} ELSE completed
    /\ UNCHANGED <<cloudVars, inputVars, waiting, dispatchVars,
                   store, pc, resources, vi, loaded,
                   total_submitted, error, calls>>

InitUpload ==
    /\ NoCloud
    /\ config = DefaultConfig
    /\ command = "call"
    /\ \E fn \in {"video_data", "training_data"}, input_s3 \in Destinations :
         /\ fn = "training_data" => input_s3.path = <<>>   \* its keys leave the path out
         /\ opt = Options(FALSE, FALSE, FALSE, NoneValue, input_s3, fn)
    /\ videos \in {s \in SeqsUpTo(Files, MaxVideos) : Injective(s)}
    /\ store \in StoresOver(KeysOf(opt.fn, videos, opt.input_s3))
    /\ IdleCommand

NextUpload ==
    \/ CallUploadTag
    \/ VdProbe
    \/ VdUpload
    \/ VdTag

SpecUpload == InitUpload /\ [][NextUpload]_vars

-----------------------------------------------------------------------------
(* Two calls of video_data over the same file at the same time *)

\* Both calls are made, each with the tags of its own command: the deletion
\* dates differ. The first is scheduled, the second waits in waiting.
RaceStart ==
    /\ command = "race"
    /\ runs = 0
    /\ \E d1, d2 \in DeletionDates :
         /\ d1 # d2
         /\ tags' = get_tags(config, CallDescription, d1)
         /\ vd' = VdFrame("video_data", videos, opt.input_s3, tags'.tags, 1)
         /\ waiting' = VdFrame("video_data", videos, opt.input_s3,
                                get_tags(config, CallDescription, d2).tags, 2)
    /\ runs' = 2
    /\ UNCHANGED <<cloudVars, inputVars, dispatchVars, store, pc, resources, vi, loaded,
                   total_submitted, error, completed, calls>>

\* The other call gets to take its next step: nothing orders the steps of the
\* two calls.
Switch ==
    /\ command = "race"
    /\ waiting.pc \notin {"idle", "done"}
    /\ vd' = waiting
    /\ waiting' = vd
    /\ UNCHANGED <<cloudVars, inputVars, dispatchVars, store, pc, resources, tags, vi,
                   loaded, total_submitted, error, runs, completed, calls>>

InitRace ==
    /\ NoCloud
    /\ config = DefaultConfig
    /\ command = "race"
    /\ \E input_s3 \in Destinations :
         opt = Options(FALSE, FALSE, FALSE, NoneValue, input_s3, "video_data")
    /\ \E v \in Files : videos = <<v>>    \* the race is over one key
    /\ store \in StoresOver(KeysOf("video_data", videos, opt.input_s3))
    /\ IdleCommand

NextRace ==
    \/ RaceStart
    \/ Switch
    \/ VdProbe
    \/ VdUpload
    \/ VdTag

SpecRace == InitRace /\ [][NextRace]_vars

-----------------------------------------------------------------------------
(* process.script_processor_run and process.batch_run, called directly *)

Trackers == {"deepsort", "strongsort", "bytetrack"}

\* custom_config('aws', '<tracker>_track_config_s3')
track_config_s3(tracker) == <<"s3://", "track-conf", "/", tracker, ".yaml">>

\* The model options at their defaults.
model_size == "640"
model_s3 == [netloc |-> "models", path |-> <<"/", "yolov5x", "/", "model.tar.gz">>]

\* Locations a caller can give for the tracker configuration and the reid model.
ConfigLocations == {NoLocation, <<"s3://", "my-conf", "/", "track.yaml">>}
ReidLocations == {NoLocation, <<"https://", "reid", "/", "osnet.pt">>}

Arg(flag, value) == <<flag, value>>

\* arguments of script_processor_run
Arguments(conf_thres, iou_thres, size, model, config_s3, reid_model_url, tracker, save_vid) ==
    << <<"dettrack">>,
       Arg("--conf-thres", <<conf_thres>>),
       Arg("--iou-thres", <<iou_thres>>),
       Arg("--model-size", <<size>>),
       Arg("--model-s3", <<"s3://", model.netloc, "/">> \o LStrip(model.path)) >>
    \o (IF config_s3 # NoLocation THEN <<Arg("--config-s3", config_s3)>> ELSE <<>>)
    \o (IF reid_model_url # NoLocation /\ tracker = "strongsort"
        THEN <<Arg("--reid-weights", reid_model_url)>>
        ELSE (IF tracker = "deepsort"
              THEN <<Arg("--config-s3", track_config_s3("deepsort"))>> ELSE <<>>)
             \o (IF tracker = "strongsort"
                 THEN <<Arg("--config-s3", track_config_s3("strongsort"))>> ELSE <<>>))
    \o (IF save_vid THEN << <<"--save-vid">> >> ELSE <<>>)

\* base_job_name = f'{tracker}-yolov5-{user_name}'
base_job_name(tracker, user_name) == <<tracker, "-", "yolov5", "-">> \o user_name

\* processor = image_uri_ecr.split('/')[-1], the image custom_config names
processor(tracker) == <<tracker, "-", "yolov5", ":", "1.1.2">>

\* The keys the input bucket can hold, in the order a listing gives them.
ObjectKeys ==
    << <<"in", "/", "a.mp4">>,
       <<"in", "/", "d1", "/", "b.mp4">>,
       <<"in", "/", "in", "/", "c.mp4">>,
       <<"out", "/", "a.mp4">> >>

StartsWith(s, p) == Len(s) >= Len(p) /\ SubSeq(s, 1, Len(p)) = p

\* [obj.key for obj in bucket.objects.filter(Prefix=prefix)]
ListObjects(st, prefix) ==
    SelectSeq(ObjectKeys, LAMBDA k : k \in DOMAIN st /\ StartsWith(k, prefix))

\* s.replace(old, ''): every occurrence of old is taken out, left to right
RECURSIVE Replace(_, _)
Replace(s, old) ==
    IF old = <<>> \/ Len(s) < Len(old) THEN s
    ELSE IF SubSeq(s, 1, Len(old)) = old
         THEN Replace(SubSeq(s, Len(old) + 1, Len(s)), old)
         ELSE <<Head(s)>> \o Replace(Tail(s), old)

\* videos = [video.replace(input_s3.path.lstrip('/'), '') for video in videos]
ListedVideos(st, input_s3) ==
    LET prefix == LStrip(input_s3.path)
        listed == ListObjects(st, prefix)
    IN  [i \in 1..Len(listed) |-> Replace(listed[i], prefix)]

\* The frame of a call that has built its argument list and its job name.
SpFrame(run) ==
    [SpIdle EXCEPT !.pc = "list", !.run = run,
                   !.job = base_job_name(opt.tracker, config.user_name),
                   !.arguments = Arguments(opt.conf_thres, opt.iou_thres,
                                     model_size, model_s3, opt.config_s3,
                                     opt.reid_model_url, opt.tracker, opt.save_vid)]

\* script_processor_run is called: an unsupported tracker ends it at once,
\* otherwise it builds the argument list and the job name
CallScriptProcessorRun ==
    /\ command = "script_processor_run"
    /\ sp.pc = "idle"
    /\ runs' = runs + 1
    /\ IF opt.tracker \notin {"deepsort", "strongsort"}
       THEN sp' = [sp EXCEPT !.pc = "done", !.run = runs + 1,
                             !.result = SpRaised("Exception",
                                            <<opt.tracker, "not currently supported">>)]
       ELSE sp' = SpFrame(runs + 1)
    /\ UNCHANGED <<cloudVars, inputVars, waiting, job_cache, queue,
                   store, pc, resources, tags, vi, loaded, total_submitted, error,
                   vd, completed, calls>>

\* the listing under the input prefix, with the prefix taken off each key
SpList ==
    /\ sp.pc = "list"
    /\ sp' = [sp EXCEPT !.pc = "mark_running", !.w = 0,
                        !.videos = ListedVideos(store, opt.input_s3),
                        !.listing = ListObjects(store, LStrip(opt.input_s3.path))]
    /\ calls' = Append(calls, Call("list", LStrip(opt.input_s3.path), sp.run))
    /\ UNCHANGED <<cloudVars, inputVars, waiting, job_cache, queue,
                   store, pc, resources, tags, vi, loaded, total_submitted, error,
                   vd, runs, completed>>

\* script_processor.run(...) is entered: the job is handed to the service
SpRunStarts ==
    /\ sp.pc = "dispatch"
    /\ sp' = [sp EXCEPT !.pc = "running"]
    /\ calls' = Append(calls, Call("run", sp.job, sp.run))
    /\ UNCHANGED <<cloudVars, inputVars, waiting, job_cache, queue,
                   store, pc, resources, tags, vi, loaded, total_submitted, error,
                   vd, runs, completed>>

\* While the job runs somebody else puts an object into the bucket.
ObjectAdded ==
    /\ sp.pc = "running"
    /\ \E i \in 1..Len(ObjectKeys) :
         /\ ObjectKeys[i] \notin DOMAIN store
         /\ store' = (ObjectKeys[i] :> OldTags) @@ store
    /\ UNCHANGED <<cloudVars, inputVars, waiting, dispatchVars,
                   pc, resources, tags, vi, loaded, total_submitted, error,
                   vd, runs, completed, calls>>

\* How the blocking run(...) ends: it returns with the job in a terminal
\* status, or it raises.
ProcessingJobStatus == {"Completed", "Failed", "Stopped"}
FailureReasons == {"AlgorithmError", "CapacityError"}

SpRunEnds ==
    /\ sp.pc = "running"
    /\ \/ \E status \in ProcessingJobStatus, reason \in FailureReasons :
            /\ status # "Failed" => reason = "AlgorithmError"
            /\ sp' = [sp EXCEPT !.pc = "mark_terminal", !.w = 0, !.job_status = status,
                                !.reason = IF status = "Failed" THEN reason ELSE ""]
       \/ sp' = [sp EXCEPT !.pc = "done", !.result = SpRaised("RunError", <<>>)]
    /\ UNCHANGED <<cloudVars, inputVars, waiting, job_cache, queue,
                   store, pc, resources, tags, vi, loaded, total_submitted, error,
                   vd, runs, completed, calls>>

\* if script_processor.jobs[-1].describe()['ProcessingJobStatus'] == 'Failed'
\* TerminalStatus is the code's test; the three before it are faulty variants (one
\* never sees a failure, one writes a status that is not terminal, one never
\* sees a success).
TerminalStatusNeverFailed(status) == "SUCCESS"
TerminalStatusQueued(status) == IF status = "Failed" THEN "FAILED" ELSE "QUEUED"
TerminalStatusAlwaysFailed(status) == "FAILED"
TerminalStatus(status) == IF status = "Failed" THEN "FAILED" ELSE "SUCCESS"

\* msg = f"Script processor failed for inputs s3://{netloc}/{path}: {reason}"
FailureMessage(input_s3, reason) ==
    <<"Script processor failed for inputs", "s3://", input_s3.netloc, "/">>
    \o LStrip(input_s3.path) \o <<":", reason>>

\* The status a round of JobCache writes sets: RUNNING before the dispatch,
\* the outcome after it.
RoundStatus(frame) ==
    IF frame.pc = "mark_running" THEN "RUNNING" ELSE TerminalStatus(frame.job_status)

\* Where the call is after the last write of a round: at the dispatch, or at
\* its end (raise Exception(msg) after FAILED, falling off the end after SUCCESS).
AfterRound(frame) ==
    IF frame.pc = "mark_running"
    THEN [frame EXCEPT !.pc = "dispatch"]
    ELSE [frame EXCEPT !.pc = "done",
                       !.result = IF RoundStatus(frame) = "FAILED"
                                  THEN SpRaised("Exception",
                                           FailureMessage(opt.input_s3, frame.reason))
                                  ELSE SpReturned]

\* JobCache().set_job(base_job_name, processor, videos, <status>): one write
SpSetJob ==
    /\ sp.pc \in {"mark_running", "mark_terminal"}
    /\ sp.w = 0
    /\ job_cache' = set_job(job_cache, sp.job, processor(opt.tracker), sp.videos,
                            RoundStatus(sp))
    /\ calls' = Append(calls, CallR("set_job", sp.job, sp.run, RoundStatus(sp)))
    /\ sp' = IF sp.videos = <<>> THEN AfterRound(sp) ELSE [sp EXCEPT !.w = 1]
    /\ UNCHANGED <<cloudVars, inputVars, waiting, queue,
                   store, pc, resources, tags, vi, loaded, total_submitted, error,
                   vd, runs, completed>>

\* for v in videos: JobCache().set_media(base_job_name, v, <status>): one write
SpSetMedia ==
    /\ sp.pc \in {"mark_running", "mark_terminal"}
    /\ sp.w >= 1
    /\ job_cache' = set_media(job_cache, sp.job, sp.videos[sp.w], RoundStatus(sp))
    /\ calls' = Append(calls, CallR("set_media", MediaKey(sp.job, sp.videos[sp.w]),
                                    sp.run, RoundStatus(sp)))
    /\ sp' = IF sp.w = Len(sp.videos) THEN AfterRound(sp) ELSE [sp EXCEPT !.w = sp.w + 1]
    /\ UNCHANGED <<cloudVars, inputVars, waiting, queue,
                   store, pc, resources, tags, vi, loaded, total_submitted, error,
                   vd, runs, completed>>

\* batch_run(resources, video_path, job_name, user_name, clean, conf_thres, iou_thres)
CallBatchRun ==
    /\ command = "batch_run"
    /\ error = NoException
    /\ runs < MaxRuns
    /\ runs' = runs + 1
    /\ IF ~ HasKey(resources, "VIDEO_QUEUE")
       THEN /\ error' = SubscriptError(resources)
            /\ UNCHANGED <<calls, queue, job_cache, completed>>
       ELSE \E outcome \in SendOutcomes :
              /\ calls' = calls \o BatchRunCalls(videos[1], opt.job, runs + 1, outcome)
              /\ queue' = BatchRunQueue(queue, resources,
                              Message(videos[1], opt.job, config.user_name, opt.clean,
                                      opt.conf_thres, opt.iou_thres),
                              outcome)
              /\ job_cache' = BatchRunCache(job_cache, resources, videos[1], opt.job,
                                            outcome)
              /\ IF outcome = "ok"
                 THEN completed' = completed \cup {runs + 1} /\ UNCHANGED error
                 ELSE error' = "ClientError" /\ UNCHANGED completed
    /\ UNCHANGED <<cloudVars, inputVars, waiting, sp,
                   store, pc, resources, tags, vi, loaded, total_submitted, vd>>

\* The resource map of a cluster whose task definition names the video queue,
\* and of one whose task definition does not.
DispatchResources ==
    { get_resources("demo-cluster",
                    <<[ResourceType |-> TaskDefinitionType,
                       PhysicalResourceId |-> "arn:task-def"]>>,
                    env, NoError, NoError) :
        env \in {FullEnvironment, Without(FullEnvironment, {<<"VIDEO", "QUEUE">>})} }

JobNames == {<<"DiveV1">>, <<"DiveV2">>}
Thresholds == {"0.01", "0.5"}

InitDispatch ==
    /\ NoCloud
    /\ config = DefaultConfig
    /\ \/ /\ command = "script_processor_run"
          /\ \E tracker \in Trackers, config_s3 \in ConfigLocations,
                reid_model_url \in ReidLocations, save_vid \in BOOLEAN,
                input_s3 \in Destinations :
               opt = [Options(FALSE, FALSE, FALSE, NoneValue, input_s3, "")
                        EXCEPT !.tracker = tracker, !.config_s3 = config_s3,
                               !.reid_model_url = reid_model_url, !.save_vid = save_vid]
          /\ videos = <<>>
          /\ store \in StoresOver({ObjectKeys[i] : i \in 1..Len(ObjectKeys)})
          /\ resources = None
       \/ /\ command = "batch_run"
          /\ \E clean \in BOOLEAN, job \in JobNames, conf_thres \in Thresholds :
               opt = [Options(FALSE, FALSE, FALSE, NoneValue,
                              [netloc |-> "", path |-> <<>>], "")
                        EXCEPT !.clean = clean, !.job = job, !.conf_thres = conf_thres]
          /\ \E v \in Files : videos = <<v>>
          /\ store = EmptyStore
          /\ resources \in DispatchResources
    /\ pc = "start"
    /\ tags = TagsReturned(NoTags)
    /\ vi = 0
    /\ loaded = FALSE
    /\ total_submitted = 0
    /\ error = NoException
    /\ vd = VdIdle
    /\ runs = 0
    /\ completed = {}
    /\ waiting = VdIdle
    /\ sp = SpIdle
    /\ job_cache = EmptyJobCache
    /\ queue = <<>>
    /\ calls = <<>>

NextDispatch ==
    \/ CallScriptProcessorRun
    \/ SpList
    \/ SpSetJob
    \/ SpSetMedia
    \/ SpRunStarts
    \/ ObjectAdded
    \/ SpRunEnds
    \/ CallBatchRun

SpecDispatch == InitDispatch /\ [][NextDispatch]_vars

-----------------------------------------------------------------------------
(* Two calls of script_processor_run, in two processes, over one JobCache *)

\* Both processes call with the same tracker and user, hence the same job name.
\* The first is scheduled, the second waits.
ScriptRaceStart ==
    /\ command = "script_race"
    /\ runs = 0
    /\ sp' = SpFrame(1)
    /\ waiting' = SpFrame(2)
    /\ runs' = 2
    /\ UNCHANGED <<cloudVars, inputVars, job_cache, queue,
                   store, pc, resources, tags, vi, loaded, total_submitted, error,
                   vd, completed, calls>>

\* The other process gets to take its next step: JobCache has no lock, so
\* nothing orders the writes of the two.
SwitchScript ==
    /\ command = "script_race"
    /\ waiting.pc \notin {"idle", "done"}
    /\ sp' = waiting
    /\ waiting' = sp
    /\ UNCHANGED <<cloudVars, inputVars, job_cache, queue,
                   store, pc, resources, tags, vi, loaded, total_submitted, error,
                   vd, runs, completed, calls>>

\* The objects under the input prefix when the first call lists them.
RaceObjects == {ObjectKeys[1], ObjectKeys[2]}

InitScriptRace ==
    /\ NoCloud
    /\ config = DefaultConfig
    /\ command = "script_race"
    /\ opt = Options(FALSE, FALSE, FALSE, NoneValue,
                     [netloc |-> "bucket", path |-> <<"/", "in">>], "")
    /\ videos = <<>>
    /\ store \in StoresOver(RaceObjects)
    /\ pc = "start"
    /\ resources = None
    /\ tags = TagsReturned(NoTags)
    /\ vi = 0
    /\ loaded = FALSE
    /\ total_submitted = 0
    /\ error = NoException
    /\ vd = VdIdle
    /\ runs = 0
    /\ completed = {}
    /\ waiting = SpIdle
    /\ sp = SpIdle
    /\ job_cache = EmptyJobCache
    /\ queue = <<>>
    /\ calls = <<>>

NextScriptRace ==
    \/ ScriptRaceStart
    \/ SwitchScript
    \/ SpList
    \/ SpSetJob
    \/ SpSetMedia
    \/ SpRunStarts
    \/ SpRunEnds

SpecScriptRace == InitScriptRace /\ [][NextScriptRace]_vars

-----------------------------------------------------------------------------
(* Properties of get_resources and its callers, under SpecResolve *)

HasTaskDefinition ==
    \E i \in 1..Len(stack_resources) :
        Contains(TaskDefinitionType, stack_resources[i].ResourceType)

Resolved == pc # "start"
Ended == pc \in {"exit", "monitoring"}

MutatingOps == {"create_bucket", "upload", "tag", "send_message", "set_job", "set_media"}
Did(ops) == \E j \in 1..Len(calls) : calls[j].op \in ops

\* C1: whatever the stack listing and the environment, get_resources returns
\* either a map holding all six required keys or the "no resources" result
\* (None); it never returns a map that lacks one of them.
C1_ResourceMapComplete ==
    Resolved /\ resources.kind = "map" => RequiredKeys \subseteq DOMAIN resources.map

\* C2: when the stack listing holds no task-definition resource, get_resources
\* returns the "no resources" result, which the caller's `if resources:` takes
\* as absent, and not a map.
C2_NoTaskDefinitionIsNoResources ==
    Resolved /\ cf_error = NoError /\ ~ HasTaskDefinition
        => resources.kind = "None" /\ ~ Truthy(resources)

\* C3: when the cluster resolves to no task definition, the batch-submit command
\* uploads nothing, publishes nothing and writes no JobCache status, the monitor
\* command starts no monitor, and each ends with the unknown-cluster report and
\* no exception.
C3_UnknownClusterIsReported ==
    cf_error = NoError /\ ~ HasTaskDefinition
        => /\ ~ Did(MutatingOps \cup {"monitor_start"})
           /\ Ended => error = NoException /\ Did({"warn_no_resources"})

\* C4: whenever list_stack_resources or describe_task_definition fails,
\* get_resources raises: "Access denied" for an access-denied code, "Token
\* expired" for an expired-token code, and an error for every other code too.
LookupFailure ==
    IF cf_error # NoError THEN cf_error
    ELSE IF HasTaskDefinition THEN ecs_error ELSE NoError
C4_LookupFailureRaises ==
    Resolved /\ LookupFailure # NoError
        => /\ resources.kind = "raise"
           /\ Contains(<<"AccessDenied">>, LookupFailure) => resources.msg = "Access denied"
           /\ Contains(<<"ExpiredToken">>, LookupFailure) => resources.msg = "Token expired"

-----------------------------------------------------------------------------
(* Properties of get_tags and of process_command, under SpecProcess *)

\* The values get_tags builds from the configuration and the description.
TagValues ==
    LET t == TagDict(config, opt.job_description, CHOOSE d \in DeletionDates : TRUE)
    IN  {t[i].Value : i \in 1..Len(t)}
OnlyAllowed(value) == value = NoneValue \/ Range(value) \subseteq allowed

\* C5: if a tag value holds a character outside the allowed set, get_tags ends
\* with an error and the command has made no mutating call.
C5_BadTagValueRejected ==
    pc # "start" /\ (\E v \in TagValues : ~ OnlyAllowed(v))
        => tags.kind = "raise" /\ pc = "exit" /\ ~ Did(MutatingOps)

\* C6: if every tag value is made of allowed characters only (the empty value
\* and a missing job description included), get_tags returns the list of seven
\* key/value pairs and does not raise.
C6_GoodTagValuesAccepted ==
    pc # "start" /\ (\A v \in TagValues : OnlyAllowed(v))
        => tags.kind = "list" /\ Len(tags.tags) = 7

\* C10: a call of video_data that ends without error returns the pair
\* (destination prefix, size), so that the process command, its buckets there
\* and its upload complete, goes on to call script_processor_run.
C10_VideoDataReturnsPair ==
    /\ vd.pc = "done" /\ vd.fn = "video_data" /\ vd.result.kind # "raise"
           => vd.result.kind = "pair"
    /\ command = "process" /\ pc \notin {"start", "create_buckets", "upload", "in_video_data"}
           /\ completed # {}
           => Did({"script_processor_run"})

-----------------------------------------------------------------------------
(* Properties of video_data, under SpecUpload *)

CallsOfRun(r) == {j \in 1..Len(calls) : calls[j].run = r}
SameFile(c, d) == c.key = d.key /\ c.run = d.run
FullTagSet(t) == Len(t) = 7

\* C7: once a call of video_data has returned, a later call over the same files
\* and destination uploads no bytes, and after either call each file's object
\* is stored with the full tag set (that of the call, when the call returned).
C7_SecondRunUploadsNothing ==
    opt.fn = "video_data" =>
        /\ \A j \in 1..Len(calls) :
               calls[j].op = "upload" => \A r \in completed : ~ (r < calls[j].run)
        /\ completed # {} =>
               \A k \in KeysOf(opt.fn, videos, opt.input_s3) :
                   k \in DOMAIN store /\ FullTagSet(store[k])
        /\ vd.pc = "done" /\ vd.run \in completed =>
               \A k \in KeysOf(opt.fn, videos, opt.input_s3) : store[k] = vd.tags

C7_Witness ==
    /\ opt.fn = "video_data"
    /\ Len(videos) = MaxVideos
    /\ completed = {1, 2}
    /\ vd.pc = "done" /\ vd.run = 2
    /\ \E j \in 1..Len(calls) : calls[j].op = "upload" /\ calls[j].run = 1
    /\ \E j \in 1..Len(calls) : calls[j].op = "probe" /\ calls[j].run = 2

\* C8: for each file video_data probes first; it uploads only after a probe that
\* reported not-found; a probe that fails with another error ends the call with
\* that error, with no upload and no tagging for that file or a later one.
C8_ProbeDecides ==
    opt.fn = "video_data" =>
        /\ \A j \in 1..Len(calls) :
               /\ calls[j].op = "upload" =>
                      /\ j > 1 /\ calls[j - 1].op = "probe"
                      /\ SameFile(calls[j - 1], calls[j])
                      /\ calls[j - 1].result = "404"
               /\ calls[j].op = "tag" =>
                      /\ j > 1 /\ SameFile(calls[j - 1], calls[j])
                      /\ \/ calls[j - 1].op = "upload"
                         \/ calls[j - 1].op = "probe" /\ calls[j - 1].result = "found"
               /\ calls[j].op = "probe" /\ calls[j].result \notin {"found", "404"} =>
                      /\ \A l \in CallsOfRun(calls[j].run) : l <= j
                      /\ vd.run = calls[j].run =>
                             vd.pc = "done" /\ vd.result = VdRaised(calls[j].result)
        /\ calls # <<>> => calls[1].op = "probe"

C8_Witness ==
    /\ opt.fn = "video_data"
    /\ Len(videos) = MaxVideos
    /\ vd.pc = "done" /\ vd.result = VdRaised("403")
    /\ \E j \in 2..Len(calls) :
           /\ calls[j].op = "probe" /\ calls[j].result = "403" /\ calls[j].run = vd.run
           /\ calls[j - 1].op = "tag" /\ calls[j - 1].run = vd.run
    /\ \E j \in 1..Len(calls) : calls[j].op = "upload" /\ calls[j].run = vd.run

\* C9: in video_data and training_data an error of the byte upload or of the
\* tagging call ends the call with that error: after a failed upload the
\* function neither tags that key nor goes on to a later file.
C9_UploadErrorPropagates ==
    \A j \in 1..Len(calls) :
        calls[j].op \in {"upload", "tag"} /\ calls[j].result # "ok" =>
            /\ \A l \in CallsOfRun(calls[j].run) : l <= j
            /\ vd.run = calls[j].run =>
                   vd.pc = "done" /\ vd.result = VdRaised(calls[j].result)

-----------------------------------------------------------------------------
(* The object key of an uploaded video, under SpecProcess *)

\* The local mount root a file lies under: /Volumes for the files on a mounted
\* volume, /mnt/data for the file of the worked example.
MountRoot(v) ==
    IF Contains(<<"Volumes", "/">>, v.parent)
    THEN <<"/", "Volumes">>
    ELSE <<"/", "mnt", "/", "data">>

\* The parent directory relative to the mount root, without a leading slash.
RelativeParent(v) ==
    LStrip(SubSeq(v.parent, Len(MountRoot(v)) + 1, Len(v.parent)))

\* The non-empty parts joined by single slashes.
RECURSIVE JoinSlash(_)
JoinSlash(parts) ==
    IF parts = <<>> THEN <<>>
    ELSE LET rest == JoinSlash(Tail(parts))
         IN  IF Head(parts) = <<>> THEN rest
             ELSE IF rest = <<>> THEN Head(parts)
             ELSE Head(parts) \o <<"/">> \o rest

\* prefix without its leading slash / relative parent / file name
ClaimedKey(v, input_s3) ==
    JoinSlash(<<LStrip(input_s3.path), RelativeParent(v), <<v.name>>>>)

\* C11: every key video_data probes is the destination prefix without a leading
\* slash, then the file's parent directory relative to the local mount root,
\* then the file name, joined by single slashes (/mnt/data/dive1/clip1.mp4 sent
\* to s3://bucket/in/ is probed as in/dive1/clip1.mp4).
C11_KeyIsPrefixParentName ==
    \A j \in 1..Len(calls) :
        calls[j].op = "probe" =>
            \E i \in 1..Len(videos) : calls[j].key = ClaimedKey(videos[i], opt.input_s3)

-----------------------------------------------------------------------------
(* Properties of the two dispatch strategies, under SpecDispatch *)

StatusWrites == {"set_job", "set_media"}
DispatchCalls == {"run", "send_message"}

IsPrefix(s, t) == Len(s) <= Len(t) /\ SubSeq(t, 1, Len(s)) = s

\* The statuses one dispatch wrote for one job or media, in order.
StatusesOf(run, op, k) ==
    LET w == SelectSeq(calls, LAMBDA c : c.run = run /\ c.op = op /\ c.key = k)
    IN  [i \in 1..Len(w) |-> w[i].result]

\* The call has gone past run(...) and the look at the job's status.
Inspected == sp.pc = "done" /\ sp.job_status # ""

\* C12: within one dispatch the statuses written for the job and for each media
\* follow QUEUED -> RUNNING -> {SUCCESS, FAILED}: script_processor_run writes
\* RUNNING and then, once it has looked at the finished job, exactly one of
\* SUCCESS or FAILED, and never QUEUED; batch_run writes QUEUED and nothing else.
C12_StatusPath ==
    /\ \A j \in 1..Len(calls) :
           calls[j].op \in StatusWrites =>
               LET w == StatusesOf(calls[j].run, calls[j].op, calls[j].key)
               IN  IF command = "batch_run"
                   THEN w = <<"QUEUED">>
                   ELSE /\ \/ IsPrefix(w, <<"RUNNING", "SUCCESS">>)
                           \/ IsPrefix(w, <<"RUNNING", "FAILED">>)
                        /\ Inspected => Len(w) = 2
    /\ Inspected =>
           /\ Len(StatusesOf(sp.run, "set_job", sp.job)) = 2
           /\ \A i \in 1..Len(sp.videos) :
                  Len(StatusesOf(sp.run, "set_media", MediaKey(sp.job, sp.videos[i]))) = 2

C12_Witness ==
    /\ Inspected
    /\ Len(sp.videos) >= 2
    /\ StatusesOf(sp.run, "set_media", MediaKey(sp.job, sp.videos[2]))
           = <<"RUNNING", "FAILED">>

\* C13: when the managed job has failed, script_processor_run raises an
\* exception whose message carries the failure reason the service reported, and
\* when it raises the job and every listed media are recorded FAILED.
C13_FailureRecordedThenRaised ==
    sp.pc = "done" /\ sp.job_status = "Failed" =>
        /\ sp.result.kind = "raise"
        /\ Contains(<<sp.reason>>, sp.result.msg)
        /\ sp.job \in DOMAIN job_cache.job
        /\ job_cache.job[sp.job].status = "FAILED"
        /\ \A i \in 1..Len(sp.videos) :
               /\ MediaKey(sp.job, sp.videos[i]) \in DOMAIN job_cache.media
               /\ job_cache.media[MediaKey(sp.job, sp.videos[i])] = "FAILED"

C13_Witness ==
    /\ sp.pc = "done" /\ sp.job_status = "Failed" /\ sp.reason = "CapacityError"
    /\ sp.result.kind = "raise"
    /\ Len(sp.videos) >= 2

\* C14: each call of batch_run that returns has published exactly one message,
\* for its one video, whose body has exactly the fields video, clean ('True' or
\* 'False'), user_name, job_name, conf_thres and iou_thres with the call's
\* values; the job and the (job, video name) media are then QUEUED, and the
\* call wrote no other status.
C14_OneMessageThenQueued ==
    command = "batch_run" =>
        /\ Len(queue) = Cardinality(completed)
        /\ \A i \in 1..Len(queue) :
               queue[i].body =
                   [video |-> get_prefix(videos[1]) \o <<"/", videos[1].name>>,
                    clean |-> IF opt.clean THEN "True" ELSE "False",
                    user_name |-> config.user_name,
                    job_name |-> opt.job,
                    conf_thres |-> opt.conf_thres,
                    iou_thres |-> opt.iou_thres]
        /\ \A r \in completed :
               /\ Cardinality({j \in 1..Len(calls) :
                                  calls[j].run = r /\ calls[j].op = "send_message"}) = 1
               /\ StatusesOf(r, "set_job", opt.job) = <<"QUEUED">>
               /\ StatusesOf(r, "set_media", MediaKey(opt.job, <<videos[1].name>>))
                      = <<"QUEUED">>
               /\ \A j \in 1..Len(calls) :
                      calls[j].run = r /\ calls[j].op \in StatusWrites =>
                          /\ calls[j].result = "QUEUED"
                          /\ calls[j].key \in {opt.job, MediaKey(opt.job, <<videos[1].name>>)}
        /\ completed # {} =>
               /\ job_cache.job[opt.job].status = "QUEUED"
               /\ job_cache.job[opt.job].media = <<<<videos[1].name>>>>
               /\ job_cache.media[MediaKey(opt.job, <<videos[1].name>>)] = "QUEUED"
               /\ DOMAIN job_cache.media = {MediaKey(opt.job, <<videos[1].name>>)}

C14_Witness ==
    /\ command = "batch_run"
    /\ completed = {1, 2}
    /\ ~ opt.clean
    /\ Len(queue) = 2 /\ queue[2].body.clean = "False"

\* The index of the dispatch call of a run in the log, if it was made.
DispatchAt(run) == {j \in 1..Len(calls) : calls[j].run = run /\ calls[j].op \in DispatchCalls}

\* C17 as stated: in both strategies every status a dispatch writes before the
\* outcome (QUEUED, RUNNING) is written before its network dispatch call (the
\* container run, the queue publish), and a terminal status only after it.
C17_StatusBeforeDispatch ==
    \A j \in 1..Len(calls) :
        calls[j].op \in StatusWrites =>
            IF calls[j].result \in {"QUEUED", "RUNNING"}
            THEN \A d \in DispatchAt(calls[j].run) : j < d
            ELSE /\ \E d \in DispatchAt(calls[j].run) : d < j
                 /\ sp.job_status \in ProcessingJobStatus

\* C17 amended: script_processor_run writes RUNNING before it dispatches the
\* container run and the terminal status only after the run has returned with
\* the job's status; batch_run writes QUEUED only after its queue publish has
\* succeeded.
C17_ScriptBeforeBatchAfter ==
    \A j \in 1..Len(calls) :
        calls[j].op \in StatusWrites =>
            IF calls[j].result = "RUNNING"
            THEN \A d \in DispatchAt(calls[j].run) : j < d
            ELSE /\ \E d \in DispatchAt(calls[j].run) : d < j /\ calls[d].result = "ok"
                 /\ calls[j].result # "QUEUED" => sp.job_status \in ProcessingJobStatus

C17_Witness ==
    /\ command = "batch_run"
    /\ completed = {1, 2}
    /\ Len(calls) = 6
    /\ calls[4].op = "send_message" /\ calls[5].op = "set_job" /\ calls[6].op = "set_media"

\* The --config-s3 arguments of a list.
ConfigArguments(arguments) ==
    SelectSeq(arguments, LAMBDA a : a[1] = "--config-s3")

\* C18: the argument list of script_processor_run holds exactly one --config-s3
\* argument for every combination of tracker, reid model and caller-supplied
\* configuration: the caller's when one is supplied, otherwise the default of
\* the selected tracker.
C18_OneConfigArgument ==
    sp.pc \notin {"idle"} /\ sp.arguments # <<>> =>
        ConfigArguments(sp.arguments) =
            << Arg("--config-s3",
                   IF opt.config_s3 # NoLocation THEN opt.config_s3
                   ELSE track_config_s3(opt.tracker)) >>

\* The prefix taken off the front of a listed key.
StripPrefix(k, prefix) == SubSeq(k, Len(prefix) + 1, Len(k))

\* The media a status was written for in JobCache, and in one round of writes.
MediaWithStatus == DOMAIN job_cache.media
MediaMarked(run, statuses) ==
    {calls[j].key : j \in {l \in 1..Len(calls) :
                             /\ calls[l].run = run /\ calls[l].op = "set_media"
                             /\ calls[l].result \in statuses}}

\* C20: in script_processor_run the media that get a status are exactly the
\* object keys listed under the input prefix before the dispatch, with the
\* prefix stripped, and the set marked RUNNING is the set marked SUCCESS or
\* FAILED at the end, whatever is added under the prefix while the job runs.
C20_ListedMediaGetStatus ==
    sp.pc \in {"dispatch", "running", "mark_terminal", "done"} /\ sp.arguments # <<>> =>
        /\ MediaWithStatus =
               {MediaKey(sp.job, StripPrefix(sp.listing[i], LStrip(opt.input_s3.path))) :
                    i \in 1..Len(sp.listing)}
        /\ Inspected => MediaMarked(sp.run, {"RUNNING"})
                            = MediaMarked(sp.run, {"SUCCESS", "FAILED"})

-----------------------------------------------------------------------------
(* Properties of the loop of batchprocess_command, under SpecResolve *)

\* The calls that change something outside the command for a video.
SideEffects == {"probe", "upload", "tag", "send_message", "set_job", "set_media"}

\* C15: in a dry run batchprocess_command makes no side-effecting call for any
\* video: no existence probe, no upload, no tagging, no queue publish and no
\* JobCache status, whatever the upload and check options are.
C15_DryRunNoSideEffects ==
    command = "batchprocess" /\ opt.dry_run =>
        /\ \A j \in 1..Len(calls) : calls[j].op \notin SideEffects
        /\ vd = VdIdle
        /\ store = EmptyStore
        /\ queue = <<>>
        /\ job_cache = EmptyJobCache

C15_Witness ==
    /\ command = "batchprocess"
    /\ opt.dry_run /\ opt.upload /\ opt.check
    /\ Len(videos) = MaxVideos
    /\ vi > Len(videos)
    /\ total_submitted >= 1
    /\ \E j \in 1..Len(calls) : calls[j].op = "lookup" /\ calls[j].result = "none"

\* The key a video is uploaded under and named by in the message.
VideoKey(v) == get_prefix(v) \o <<"/", v.name>>

\* Where in the log the lookup for the i-th video is, and where the upload and
\* the publish for it are.
LookupOf(i) ==
    {j \in 1..Len(calls) : /\ calls[j].op = "lookup"
                           /\ calls[j].key = LookupKey(resources, opt.job, videos[i])}
WorkOn(i) ==
    {j \in 1..Len(calls) : /\ calls[j].op \in {"probe", "upload", "tag", "send_message"}
                           /\ calls[j].key = VideoKey(videos[i])}
LookupGave(i, outcome) == \E l \in LookupOf(i) : calls[l].result = outcome

\* The loop is through with the i-th video.
Passed(i) == vi > i

\* With the check option: the lookup by '<PROCESSOR>-<job>' and video name comes
\* before any upload or publish for the video; a video with a record is not
\* uploaded, not published and not counted; a video without one has, once the
\* loop is through with it, been uploaded (when requested) and published --
\* in every run, or only outside a dry run.
LookupGates(exceptDryRun) ==
    command = "batchprocess" /\ opt.check =>
        IF ~ HasKey(resources, "PROCESSOR")
        THEN \A j \in 1..Len(calls) : calls[j].op \notin SideEffects \cup {"lookup"}
        ELSE /\ \A i \in 1..Len(videos) :
                  /\ \A j \in WorkOn(i) : \E l \in LookupOf(i) : l < j
                  /\ LookupGave(i, "found") => WorkOn(i) = {}
                  /\ Passed(i) /\ LookupGave(i, "none") /\ ~ (exceptDryRun /\ opt.dry_run) =>
                         /\ opt.upload =>
                                \E j \in WorkOn(i) : calls[j].op = "probe"
                         /\ \E j \in WorkOn(i) :
                                calls[j].op = "send_message" /\ calls[j].result = "ok"
             /\ total_submitted =
                    Cardinality({i \in 1..Len(videos) : Passed(i) /\ LookupGave(i, "none")})

\* C16 as stated: the video the lookup finds nothing for is uploaded (when
\* requested) and published in every run of the command with the check option.
C16_LookupGatesEveryRun == LookupGates(FALSE)

\* C16 amended: with the check option the lookup by '<PROCESSOR>-<job>' and
\* video name precedes any upload or publish for the video; a video with at
\* least one record is neither uploaded nor published nor counted; a video with
\* none is counted and, outside a dry run, uploaded (when requested) and
\* published.
C16_LookupGatesOutsideDryRun == LookupGates(TRUE)

C16_Witness ==
    /\ command = "batchprocess"
    /\ opt.check /\ opt.upload /\ ~ opt.dry_run
    /\ Len(videos) = MaxVideos
    /\ Passed(Len(videos))
    /\ LookupGave(1, "found") /\ LookupGave(2, "none")
    /\ total_submitted = 1
    /\ Len(queue) = 1

-----------------------------------------------------------------------------
(* Two concurrent calls of video_data, under SpecRace *)

\* The tags a call was given.
TagsOfRun(run) == IF vd.run = run THEN vd.tags ELSE waiting.tags

\* The tagging calls that succeeded on a key, and the uploads that did.
TagWrites(k) ==
    {j \in 1..Len(calls) : calls[j].op = "tag" /\ calls[j].key = k /\ calls[j].result = "ok"}
Uploads(k, run) ==
    {j \in 1..Len(calls) : /\ calls[j].op = "upload" /\ calls[j].key = k
                           /\ calls[j].run = run /\ calls[j].result = "ok"}

\* C19: two calls of video_data that run at the same time on a key that is not
\* there can both upload it; once both have returned the object is there and
\* carries the tag set of the call whose tagging call came last.
C19_LastTagWriteWins ==
    command = "race" /\ completed = {1, 2} =>
        \A i \in 1..Len(videos) :
            LET k == TargetKey("video_data", videos, opt.input_s3, i)
            IN  /\ k \in DOMAIN store
                /\ TagWrites(k) # {}
                /\ store[k] = TagsOfRun(calls[Max(TagWrites(k))].run)

C19_Witness ==
    /\ command = "race"
    /\ completed = {1, 2}
    /\ LET k == TargetKey("video_data", videos, opt.input_s3, 1)
       IN  /\ Uploads(k, 1) # {} /\ Uploads(k, 2) # {}
           /\ calls[Max(TagWrites(k))].run = 1
           /\ store[k] = TagsOfRun(1)
           /\ TagsOfRun(1) # TagsOfRun(2)

-----------------------------------------------------------------------------
(* The autoscaling group in the resource map, under SpecResolve *)

HasAutoScalingGroup ==
    \E i \in 1..Len(stack_resources) :
        Contains(AutoScalingGroupType, stack_resources[i].ResourceType)

\* C21: whenever the stack listing holds an autoscaling-group resource and a
\* task-definition resource, the map get_resources returns holds the
\* autoscaling group's id under ASG, whatever the order of the two in the
\* listing.
C21_AutoScalingGroupInMap ==
    Resolved /\ resources.kind = "map" /\ HasAutoScalingGroup /\ HasTaskDefinition
        => /\ "ASG" \in DOMAIN resources.map
           /\ \E i \in 1..Len(stack_resources) :
                  /\ Contains(AutoScalingGroupType, stack_resources[i].ResourceType)
                  /\ resources.map["ASG"] = stack_resources[i].PhysicalResourceId

-----------------------------------------------------------------------------
(* How script_processor_run leaves JobCache, under SpecDispatch *)

\* The status JobCache holds for the job of the call and for each listed media.
JobRecorded(statuses) ==
    /\ sp.job \in DOMAIN job_cache.job
    /\ job_cache.job[sp.job].status \in statuses
MediaRecorded(statuses) ==
    \A i \in 1..Len(sp.videos) :
        /\ MediaKey(sp.job, sp.videos[i]) \in DOMAIN job_cache.media
        /\ job_cache.media[MediaKey(sp.job, sp.videos[i])] \in statuses

\* C22: script_processor_run records the job and its media as SUCCESS only when
\* the remote job ended as completed; for every other terminal status (failed,
\* or stopped at the maximum runtime) it records FAILED and raises.
C22_SuccessOnlyWhenCompleted ==
    Inspected =>
        IF sp.job_status = "Completed"
        THEN JobRecorded({"SUCCESS"}) /\ MediaRecorded({"SUCCESS"})
             /\ sp.result.kind = "return"
        ELSE JobRecorded({"FAILED"}) /\ MediaRecorded({"FAILED"})
             /\ sp.result.kind = "raise"

\* The call got as far as writing RUNNING.
WroteRunning ==
    \E j \in 1..Len(calls) :
        calls[j].run = sp.run /\ calls[j].op = "set_job" /\ calls[j].result = "RUNNING"

\* C23: whenever script_processor_run ends, by returning or by raising, after
\* it has written RUNNING, the job and every listed media are recorded SUCCESS
\* or FAILED: no record is left RUNNING, also when run(...) itself raises.
C23_NothingLeftRunning ==
    sp.pc = "done" /\ WroteRunning =>
        JobRecorded({"SUCCESS", "FAILED"}) /\ MediaRecorded({"SUCCESS", "FAILED"})

-----------------------------------------------------------------------------
(* Two concurrent calls of script_processor_run, under SpecScriptRace *)

BothEnded == command = "script_race" /\ sp.pc = "done" /\ waiting.pc = "done"

\* The media both calls listed.
ListedByBoth ==
    {sp.videos[i] : i \in 1..Len(sp.videos)}
        \cap {waiting.videos[i] : i \in 1..Len(waiting.videos)}

\* C24 as stated: after two concurrent calls that share a job name have both
\* ended, the status recorded for the job equals the status recorded for every
\* media both calls listed.
C24_JobAndMediaAgree ==
    BothEnded =>
        \A m \in ListedByBoth :
            job_cache.media[MediaKey(sp.job, m)] = job_cache.job[sp.job].status

\* The frame of a call, and the status its round of writes was in when it made
\* the j-th call of the log: RUNNING before its dispatch, afterwards FAILED for
\* a failed job and SUCCESS otherwise.
FrameOf(run) == IF sp.run = run THEN sp ELSE waiting
Dispatched(j) ==
    \E d \in 1..(j - 1) : calls[d].op = "run" /\ calls[d].run = calls[j].run
StatusAt(j) ==
    IF ~ Dispatched(j) THEN "RUNNING"
    ELSE IF FrameOf(calls[j].run).job_status = "Failed" THEN "FAILED" ELSE "SUCCESS"
LastWrite(op, k) ==
    Max({j \in 1..Len(calls) : calls[j].op = op /\ calls[j].key = k})

\* C24 amended: after both calls have ended the job record holds the status of
\* the call whose job write came last, and each media record the status of the
\* call whose write for that media came last; the two need not be the same call.
C24_LastWriteStands ==
    BothEnded =>
        /\ job_cache.job[sp.job].status = StatusAt(LastWrite("set_job", sp.job))
        /\ \A k \in DOMAIN job_cache.media :
               job_cache.media[k] = StatusAt(LastWrite("set_media", k))

C24_Witness ==
    /\ BothEnded
    /\ sp.job_status # "" /\ waiting.job_status # ""
    /\ job_cache.job[sp.job].status = "SUCCESS"
    /\ \E m \in ListedByBoth : job_cache.media[MediaKey(sp.job, m)] = "FAILED"

=============================================================================
